---- MODULE Spec2Model ----
(***************************************************************************)
(* Model of Scripts/onnx_genai_runner.py: a one-shot process that reads a  *)
(* JSON request on standard input, drives the ONNX Runtime GenAI library   *)
(* through one bounded generation and writes {"text": ...} on standard     *)
(* output, or one diagnostic on standard error.                            *)
(*                                                                         *)
(* A Python string is a sequence of symbols.  A symbol is one character,   *)
(* except that a literal the program only ever handles as a whole (a file  *)
(* name, a backend identifier, an exception message) is one symbol.        *)
(* A float is an integer number of hundredths.                             *)
(***************************************************************************)
EXTENDS Integers, Sequences, FiniteSets, TLC

(***************************************************************************)
(* Bounds of the model and constants of the program.                       *)
(***************************************************************************)
\* the stub runtime emits at most this many tokens before end-of-sequence
MaxGen == 34
\* max(32, max_new_tokens), line 113
MinNewTokens == 32
\* request.get("max_new_tokens", 512), line 86
DefaultMaxNewTokens == 512
\* request.get("temperature", 0.2), line 87, in hundredths
DefaultTemperature == 20
\* request.get("top_p", 0.95), line 88, in hundredths
DefaultTopP == 95
\* _fatal(message, code=1), line 15
FatalCode == 1

(***************************************************************************)
(* Python string helpers: str.strip(), str.lower().                        *)
(***************************************************************************)
Whitespace == {" ", "\t", "\n"}

RECURSIVE LStrip(_)
LStrip(s) ==
  IF s # <<>> /\ Head(s) \in Whitespace THEN LStrip(Tail(s)) ELSE s

RECURSIVE RStrip(_)
RStrip(s) ==
  IF s # <<>> /\ s[Len(s)] \in Whitespace
    THEN RStrip(SubSeq(s, 1, Len(s) - 1))
    ELSE s

\* a strip() that was forgotten
NoStrip(s) == s

\* str.strip()
Strip(s) == RStrip(LStrip(s))

UpperAlpha ==
  <<"A","B","C","D","E","F","G","H","I","J","K","L","M",
    "N","O","P","Q","R","S","T","U","V","W","X","Y","Z">>
LowerAlpha ==
  <<"a","b","c","d","e","f","g","h","i","j","k","l","m",
    "n","o","p","q","r","s","t","u","v","w","x","y","z">>

LowerChar(c) ==
  IF \E i \in 1..Len(UpperAlpha) : UpperAlpha[i] = c
    THEN LowerAlpha[CHOOSE i \in 1..Len(UpperAlpha) : UpperAlpha[i] = c]
    ELSE c

\* str.lower()
Lower(s) == [i \in 1..Len(s) |-> LowerChar(s[i])]

Digits == <<"0","1","2","3","4","5","6","7","8","9">>
IsDigit(c) == \E i \in 1..Len(Digits) : Digits[i] = c
DigitVal(c) == (CHOOSE i \in 1..Len(Digits) : Digits[i] = c) - 1

RECURSIVE DigitsToNat(_)
DigitsToNat(s) ==
  IF s = <<>> THEN 0
  ELSE DigitsToNat(SubSeq(s, 1, Len(s) - 1)) * Len(Digits) + DigitVal(s[Len(s)])

AllDigits(s) == s # <<>> /\ \A i \in 1..Len(s) : IsDigit(s[i])

RECURSIVE NatToStr(_)
NatToStr(n) ==
  IF n < Len(Digits) THEN <<Digits[n + 1]>>
  ELSE NatToStr(n \div Len(Digits)) \o <<Digits[(n % Len(Digits)) + 1]>>

\* str(n) of an int
IntToStr(n) == IF n < 0 THEN <<"-">> \o NatToStr(-n) ELSE NatToStr(n)

(***************************************************************************)
(* JSON values as json.load returns them, and the dict of a request.       *)
(***************************************************************************)
JAbsent == [t |-> "absent", s |-> <<>>, n |-> 0]
JNull == [t |-> "null", s |-> <<>>, n |-> 0]
JStr(s) == [t |-> "str", s |-> s, n |-> 0]
JInt(n) == [t |-> "int", s |-> <<>>, n |-> n]
\* a JSON number with a fraction, n in hundredths
JFloat(n) == [t |-> "float", s |-> <<>>, n |-> n]

\* dict.get(key, default): the default only when the key is missing
RequestGet(request, key, default) ==
  IF request[key].t = "absent" THEN default ELSE request[key]

Converted(n) == [ok |-> TRUE, v |-> n, exc |-> "none"]
Raised(exc) == [ok |-> FALSE, v |-> 0, exc |-> exc]

Signed(s) == s # <<>> /\ Head(s) \in {"+", "-"}
Unsigned(s) == IF Signed(s) THEN Tail(s) ELSE s
Sign(s) == IF s # <<>> /\ Head(s) = "-" THEN -1 ELSE 1

\* int(x)
PyInt(x) ==
  CASE x.t = "int" -> Converted(x.n)
    [] x.t = "float" ->
         Converted(IF x.n >= 0 THEN x.n \div 100 ELSE -((-x.n) \div 100))
    [] x.t = "str" ->
         LET body == Strip(x.s) IN
           IF AllDigits(Unsigned(body))
             THEN Converted(Sign(body) * DigitsToNat(Unsigned(body)))
             ELSE Raised("ValueError")
    [] OTHER -> Raised("TypeError")

\* the position of the first "." of s, 0 when there is none
DotAt(s) ==
  IF \E i \in 1..Len(s) : s[i] = "."
    THEN CHOOSE i \in 1..Len(s) : s[i] = "." /\ \A j \in 1..(i - 1) : s[j] # "."
    ELSE 0

\* the fraction digits of a decimal literal, as hundredths (two digits kept)
FractionValue(f) ==
  CASE Len(f) = 0 -> 0
    [] Len(f) = 1 -> DigitVal(f[1]) * Len(Digits)
    [] OTHER -> DigitVal(f[1]) * Len(Digits) + DigitVal(f[2])

\* float(x); a string is read as [sign] digits [. digits]
PyFloat(x) ==
  CASE x.t = "int" -> Converted(x.n * 100)
    [] x.t = "float" -> Converted(x.n)
    [] x.t = "str" ->
         LET body == Unsigned(Strip(x.s))
             dot == DotAt(body)
             whole == IF dot = 0 THEN body ELSE SubSeq(body, 1, dot - 1)
             frac == IF dot = 0 THEN <<>> ELSE SubSeq(body, dot + 1, Len(body))
         IN
           IF /\ whole \o frac # <<>>
              /\ \A i \in 1..Len(whole) : IsDigit(whole[i])
              /\ \A i \in 1..Len(frac) : IsDigit(frac[i])
             THEN Converted(Sign(Strip(x.s))
                            * (DigitsToNat(whole) * 100 + FractionValue(frac)))
             ELSE Raised("ValueError")
    [] OTHER -> Raised("TypeError")

\* str(x)
PyStr(x) ==
  CASE x.t = "str" -> x.s
    [] x.t = "int" -> IntToStr(x.n)
    [] x.t = "null" -> <<"N", "o", "n", "e">>

Max(a, b) == IF a >= b THEN a ELSE b
Min(a, b) == IF a <= b THEN a ELSE b

(***************************************************************************)
(* pathlib.Path on a POSIX system: a path is absolute or not and has a     *)
(* list of components; the file system is a set of entries.                *)
(***************************************************************************)
RECURSIVE SplitPath(_, _, _)
\* the components of s between "/" symbols; empty ones and "." are dropped
SplitPath(s, cur, acc) ==
  LET done == IF cur = <<>> \/ cur = <<".">> THEN acc ELSE Append(acc, cur) IN
    IF s = <<>> THEN done
    ELSE IF Head(s) = "/" THEN SplitPath(Tail(s), <<>>, done)
    ELSE SplitPath(Tail(s), Append(cur, Head(s)), acc)

\* Path(s)
ToPath(s) ==
  [abs |-> s # <<>> /\ Head(s) = "/", parts |-> SplitPath(s, <<>>, <<>>)]

RECURSIVE JoinParts(_)
JoinParts(parts) ==
  IF parts = <<>> THEN <<>>
  ELSE IF Len(parts) = 1 THEN parts[1]
  ELSE parts[1] \o <<"/">> \o JoinParts(Tail(parts))

\* str(path)
PathStr(p) ==
  IF p.abs THEN <<"/">> \o JoinParts(p.parts)
  ELSE IF p.parts = <<>> THEN <<".">>
  ELSE JoinParts(p.parts)

\* path.parent
Parent(p) ==
  IF p.parts = <<>> THEN p
  ELSE [p EXCEPT !.parts = SubSeq(p.parts, 1, Len(p.parts) - 1)]

\* path / name
Child(p, name) == [p EXCEPT !.parts = Append(p.parts, name)]

\* path.is_file(), path.exists()
IsFile(files, p) == [path |-> p, kind |-> "file"] \in files
Exists(files, p) == \E e \in files : e.path = p

GenaiConfigName == <<"genai_config.json">>
LegacyConfigName == <<"config.json">>

(***************************************************************************)
(* _fatal and the diagnostics: a line of the error stream is a kind and    *)
(* its details (empty when the line is the kind alone).                    *)
(***************************************************************************)
Line(kind, details) == [kind |-> kind, details |-> details]

Resolved(root) == [ok |-> TRUE, root |-> root, line |-> Line("none", <<>>)]
Unresolved(line) == [ok |-> FALSE, root |-> <<>>, line |-> line]

\* the directory searched when a file path is not replaced by its parent
ModelRootOfPath(files, path) == ToPath(path)

\* the directory _resolve_model_root searches, lines 31-34
ModelRootOf(files, path) ==
  IF IsFile(files, ToPath(path)) THEN Parent(ToPath(path)) ELSE ToPath(path)

\* a locator that does not look for the legacy config.json
ResolveModelRootNoLegacy(files, path) ==
  IF Exists(files, Child(ModelRootOf(files, path), GenaiConfigName))
    THEN Resolved(PathStr(ModelRootOf(files, path)))
    ELSE Unresolved(Line("model_root_not_found", PathStr(ModelRootOf(files, path))))

\* _resolve_model_root: the root handed to og.Config, or the line _fatal prints
ResolveModelRoot(files, path) ==
  LET model_root == ModelRootOf(files, path) IN
    IF Exists(files, Child(model_root, GenaiConfigName))
      THEN Resolved(PathStr(model_root))
    ELSE IF Exists(files, Child(model_root, LegacyConfigName))
      THEN Unresolved(Line("genai_config_not_found_in_model_root", PathStr(model_root)))
    ELSE Unresolved(Line("model_root_not_found", PathStr(model_root)))

(***************************************************************************)
(* _apply_provider.  A provider is None or a string.                       *)
(***************************************************************************)
NoneStr == [none |-> TRUE, s |-> <<>>]
SomeStr(s) == [none |-> FALSE, s |-> s]

ProviderKeys ==
  { <<"c","p","u">>, <<"c","u","d","a">>, <<"d","i","r","e","c","t","m","l">>,
    <<"d","m","l">>, <<"c","o","r","e","m","l">> }

\* provider_map, lines 55-61
ProviderMap(key) ==
  CASE key = <<"c","p","u">> -> <<"CPUExecutionProvider">>
    [] key = <<"c","u","d","a">> -> <<"CUDAExecutionProvider">>
    [] key = <<"d","i","r","e","c","t","m","l">> -> <<"DmlExecutionProvider">>
    [] key = <<"d","m","l">> -> <<"DmlExecutionProvider">>
    [] key = <<"c","o","r","e","m","l">> -> <<"CoreMLExecutionProvider">>

\* a normalization that lower-cases without trimming
NormalizedNoStrip(provider) == Lower(provider)

\* normalized = provider.strip().lower(), line 51
Normalized(provider) == Lower(Strip(provider))

\* ep = provider_map.get(normalized, provider), line 63
ProviderEp(provider) ==
  IF Normalized(provider) \in ProviderKeys
    THEN ProviderMap(Normalized(provider))
    ELSE provider

\* _apply_provider: the backend list of the configuration afterwards
ApplyProvider(providers, provider) ==
  IF provider.none \/ provider.s = <<>> THEN providers
  ELSE IF Normalized(provider.s) = <<>> THEN providers
  ELSE Append(<<>>, ProviderEp(provider.s))

(***************************************************************************)
(* The runtime collaborator, as a deterministic stub: the tokenizer maps   *)
(* symbols to positions of a vocabulary behind a begin-of-sequence token,  *)
(* and the generator emits the tokens A, B, A, ... until end-of-sequence   *)
(* or until the sequence holds max_length tokens.                          *)
(***************************************************************************)
Vocab == <<"<s>", "<|user|>", "<|assistant|>", "h", "i", "N", "o", "n", "e", "A", "B">>
TokenId(sym) == CHOOSE i \in 1..Len(Vocab) : Vocab[i] = sym
BosId == TokenId("<s>")

\* tokenizer.encode(text)
Encode(text) == <<BosId>> \o [i \in 1..Len(text) |-> TokenId(text[i])]
\* tokenizer.decode(ids)
Decode(ids) == [i \in 1..Len(ids) |-> Vocab[ids[i]]]
\* tokenizer.apply_chat_template(messages, add_generation_prompt=True)
ChatTemplate(content) == <<"<|user|>">> \o content \o <<"<|assistant|>">>

\* the j-th token the stub generates
GenToken(j) == IF j % 2 = 1 THEN TokenId("A") ELSE TokenId("B")

\* the default backend list of a fresh og.Config
DefaultProviders == << <<"StubExecutionProvider">>, <<"StubFallbackProvider">> >>

\* _format_prompt; capability is "absent", "ok" or "raises"
FormatPrompt(capability, raw) ==
  IF capability = "absent" THEN raw
  ELSE IF capability = "raises" THEN raw
  ELSE ChatTemplate(raw)

\* a budget without the floor of 32 new tokens
MaxLengthNoFloor(count, new_tokens) == count + new_tokens

\* max_length, line 113
MaxLength(count, new_tokens) == count + Max(MinNewTokens, new_tokens)

\* generator.is_done(): end-of-sequence after k tokens, or max_length reached
IsDone(gen, limit) == gen.emitted >= gen.k \/ Len(gen.seq) >= limit

\* generator.generate_next_token()
GenerateNextToken(gen) ==
  [gen EXCEPT !.seq = Append(gen.seq, GenToken(gen.emitted + 1)),
              !.emitted = gen.emitted + 1]

\* the earlier driver: the whole output sequence is decoded
SliceAll(ids, count) == ids

\* output_ids[prompt_token_count:], line 128
SliceFrom(ids, count) ==
  IF count >= Len(ids) THEN <<>> ELSE SubSeq(ids, count + 1, Len(ids))

(***************************************************************************)
(* The inputs: the request on standard input and the file system.          *)
(***************************************************************************)
S_m == <<"/", "m">>
S_hi == <<"h", "i">>
S_abc == <<"a", "b", "c">>

ModelPathValues ==
  { JAbsent, JNull, JStr(<<>>), JStr(<<" ", "\t">>), JStr(S_m),
    JStr(<<" ">> \o S_m \o <<"/", " ">>),
    JStr(S_m \o <<"/", "genai_config.json">>),
    JStr(S_m \o <<"/", "config.json">>),
    JStr(S_m \o <<"/", "model.onnx">>) }
PromptValues == { JAbsent, JNull, JStr(<<>>), JStr(S_hi) }
MaxNewTokensValues == { JAbsent, JStr(S_abc), JInt(0), JInt(-3), JInt(MinNewTokens + 1) }
TemperatureValues == { JAbsent, JNull, JInt(-5) }
TopPValues == { JAbsent, JStr(<<"x">>), JFloat(150) }
ProviderValues ==
  { JAbsent, JStr(<<" ", "C", "U", "D", "A", " ">>), JStr(<<" ", "M", "y", "E", "P", " ">>) }
AllProviderValues ==
  ProviderValues \cup
  { JNull, JStr(<<>>), JStr(<<" ", " ">>), JStr(<<"c", "u", "d", "a">>),
    JStr(<<"c", "p", "u">>), JStr(<<"D", "i", "r", "e", "c", "t", "M", "L">>),
    JStr(<<"d", "m", "l", "\n">>), JStr(<<"C", "o", "r", "e", "M", "L">>),
    JStr(<<"m", "y", "c", "u", "s", "t", "o", "m", "e", "p">>), JInt(7) }

Dir(path) == [path |-> ToPath(path), kind |-> "dir"]
File(path) == [path |-> ToPath(path), kind |-> "file"]
GenaiFile == File(S_m \o <<"/", "genai_config.json">>)
LegacyFile == File(S_m \o <<"/", "config.json">>)
WeightsFile == File(S_m \o <<"/", "model.onnx">>)
FileSystems ==
  { {}, {Dir(S_m), WeightsFile}, {Dir(S_m), GenaiFile, WeightsFile},
    {Dir(S_m), LegacyFile}, {Dir(S_m), GenaiFile, LegacyFile} }

\* the numbers of tokens the stub may emit before end-of-sequence
StubLengths == {0, 2, MaxGen}
Capabilities == {"absent", "ok", "raises"}

Stages ==
  <<"decode_request", "validate", "import", "resolve", "configure", "load",
    "tokenize", "decode_loop", "extract", "detokenize", "respond">>

VARIABLES
  stdin, files,                      \* the environment
  stdout, stderr, exitCode,          \* the streams and the exit status
  pc, log,                           \* the position in main, the stages entered
  request, model_path, prompt, max_new_tokens, temperature, top_p, provider,
  model_root, config, capability, formatted_prompt, input_ids,
  prompt_token_count, max_length, params, generator, genCalls,
  output_ids, generated_ids, text

env == <<stdin, files>>
streams == <<stdout, stderr, exitCode>>
fields == <<model_path, prompt, max_new_tokens, temperature, top_p, provider>>
tokenized == <<capability, formatted_prompt, input_ids, prompt_token_count>>
budget == <<max_length, params>>
decoding == <<generator, genCalls>>
results == <<output_ids, generated_ids, text>>
vars ==
  <<env, streams, pc, log, request, fields, model_root, config, tokenized,
    budget, decoding, results>>

EmptyRequest ==
  [model_path |-> JAbsent, prompt |-> JAbsent, max_new_tokens |-> JAbsent,
   temperature |-> JAbsent, top_p |-> JAbsent, provider |-> JAbsent]
NoGenerator == [seq |-> <<>>, emitted |-> 0, k |-> 0]
NoConfig == [root |-> <<>>, providers |-> <<>>]
NoParams == [max_length |-> 0, temperature |-> 0, top_p |-> 0]

\* the state of the process before main() runs
Start ==
  /\ stdout = <<>> /\ stderr = <<>> /\ exitCode = -1
  /\ pc = "load_request" /\ log = <<>>
  /\ request = EmptyRequest
  /\ model_path = <<>> /\ prompt = <<>> /\ max_new_tokens = 0
  /\ temperature = 0 /\ top_p = 0 /\ provider = NoneStr
  /\ model_root = <<>> /\ config = NoConfig
  /\ capability = "absent" /\ formatted_prompt = <<>> /\ input_ids = <<>>
  /\ prompt_token_count = 0 /\ max_length = 0 /\ params = NoParams
  /\ generator = NoGenerator /\ genCalls = 0
  /\ output_ids = <<>> /\ generated_ids = <<>> /\ text = <<>>

ObjectInput(mp, pr, mnt, tmp, tp, prov) ==
  [kind |-> "object",
   obj |-> [model_path |-> mp, prompt |-> pr, max_new_tokens |-> mnt,
            temperature |-> tmp, top_p |-> tp, provider |-> prov]]
\* input that is not JSON, and JSON that is not an object
BadInputs ==
  { [kind |-> "malformed", obj |-> EmptyRequest],
    [kind |-> "not_object", obj |-> EmptyRequest] }

Init ==
  /\ stdin \in BadInputs \cup
       { ObjectInput(mp, pr, mnt, tmp, tp, prov) :
           mp \in ModelPathValues, pr \in PromptValues,
           mnt \in MaxNewTokensValues, tmp \in TemperatureValues,
           tp \in TopPValues, prov \in ProviderValues }
  /\ files \in FileSystems
  /\ Start

(***************************************************************************)
(* Leaving the process: _fatal, an uncaught exception, a normal return.    *)
(***************************************************************************)
\* a _fatal that also reports the failure as JSON on standard output
FatalWithOutput(line) ==
  /\ stderr' = Append(stderr, line)
  /\ stdout' = Append(stdout, [text |-> <<>>])
  /\ exitCode' = FatalCode
  /\ pc' = "exited"

\* _fatal(message): one line on the error stream, then sys.exit(1).
\* SystemExit is not an Exception: no except clause of the program stops it.
Fatal(line) ==
  /\ stderr' = Append(stderr, line)
  /\ exitCode' = FatalCode
  /\ pc' = "exited"
  /\ UNCHANGED stdout

\* what the interpreter prints for an exception nothing catches
Traceback(exc, lineno) ==
  << Line("Traceback (most recent call last):", <<>>),
     Line("  File onnx_genai_runner.py, line 137, in <module>", <<>>),
     Line("    main()", <<>>),
     Line("  File onnx_genai_runner.py, in main, line", IntToStr(lineno)),
     Line(exc, <<"conversion failed">>) >>

\* an exception raised outside every try block ends the process with status 1
Uncaught(exc, lineno) ==
  /\ stderr' = stderr \o Traceback(exc, lineno)
  /\ exitCode' = 1
  /\ pc' = "exited"
  /\ UNCHANGED stdout

\* the message of an exception the stub runtime raises
StubError(stage) == <<"stub raised in", stage>>

\* a handler that drops the underlying message
GenerationFailedNoMessage(stage) == Fatal(Line("onnxruntime_generation_failed", <<>>))

\* except Exception as exc: _fatal(f"onnxruntime_generation_failed: {exc}")
GenerationFailed(stage) == Fatal(Line("onnxruntime_generation_failed", StubError(stage)))

Enter(stage) == log' = Append(log, stage)

(***************************************************************************)
(* main(), one action per step.                                            *)
(***************************************************************************)
\* _load_request, lines 20-27
LoadRequest ==
  /\ pc = "load_request"
  /\ Enter("decode_request")
  /\ CASE stdin.kind = "malformed" ->
             /\ Fatal(Line("invalid_request_json", <<"Expecting value">>))
             /\ UNCHANGED request
        [] stdin.kind = "not_object" ->
             /\ Fatal(Line("invalid_request_json", <<"payload must be a JSON object">>))
             /\ UNCHANGED request
        [] stdin.kind = "object" ->
             /\ request' = stdin.obj
             /\ pc' = "read_fields"
             /\ UNCHANGED streams
  /\ UNCHANGED <<env, fields, model_root, config, tokenized, budget, decoding, results>>

\* provider = str(provider) if provider is not None else None, lines 89-90
ProviderOf(req) ==
  IF req.provider.t \in {"absent", "null"} THEN NoneStr ELSE SomeStr(PyStr(req.provider))

\* lines 84-90: the typed fields; int() and float() raise outside any try
ReadFields ==
  /\ pc = "read_fields"
  /\ LET mnt == PyInt(RequestGet(request, "max_new_tokens", JInt(DefaultMaxNewTokens)))
         tmp == PyFloat(RequestGet(request, "temperature", JFloat(DefaultTemperature)))
         tp == PyFloat(RequestGet(request, "top_p", JFloat(DefaultTopP)))
     IN
       IF ~mnt.ok THEN Uncaught(mnt.exc, 86) /\ UNCHANGED fields
       ELSE IF ~tmp.ok THEN Uncaught(tmp.exc, 87) /\ UNCHANGED fields
       ELSE IF ~tp.ok THEN Uncaught(tp.exc, 88) /\ UNCHANGED fields
       ELSE /\ model_path' = Strip(PyStr(RequestGet(request, "model_path", JStr(<<>>))))
            /\ prompt' = PyStr(RequestGet(request, "prompt", JStr(<<>>)))
            /\ max_new_tokens' = mnt.v
            /\ temperature' = tmp.v
            /\ top_p' = tp.v
            /\ provider' = ProviderOf(request)
            /\ pc' = "validate"
            /\ UNCHANGED streams
  /\ UNCHANGED <<env, log, request, model_root, config, tokenized, budget, decoding, results>>

\* the two required-field checks in the other order
ValidatePromptFirst ==
  /\ pc = "validate"
  /\ Enter("validate")
  /\ IF prompt = <<>> THEN Fatal(Line("missing_prompt", <<>>))
     ELSE IF model_path = <<>> THEN Fatal(Line("missing_model_path", <<>>))
     ELSE pc' = "import" /\ UNCHANGED streams
  /\ UNCHANGED <<env, request, fields, model_root, config, tokenized, budget, decoding, results>>

\* lines 92-95
Validate ==
  /\ pc = "validate"
  /\ Enter("validate")
  /\ IF model_path = <<>> THEN Fatal(Line("missing_model_path", <<>>))
     ELSE IF prompt = <<>> THEN Fatal(Line("missing_prompt", <<>>))
     ELSE pc' = "import" /\ UNCHANGED streams
  /\ UNCHANGED <<env, request, fields, model_root, config, tokenized, budget, decoding, results>>

\* lines 97-100: the import succeeds or raises
ImportRuntime ==
  /\ pc = "import"
  /\ Enter("import")
  /\ \E installed \in BOOLEAN :
       IF installed THEN pc' = "resolve" /\ UNCHANGED streams
       ELSE Fatal(Line("onnxruntime_genai_import_failed", <<"No module named onnxruntime_genai">>))
  /\ UNCHANGED <<env, request, fields, model_root, config, tokenized, budget, decoding, results>>

\* line 103, the argument: _resolve_model_root(model_path)
Resolve ==
  /\ pc = "resolve"
  /\ Enter("resolve")
  /\ LET r == ResolveModelRoot(files, model_path) IN
       IF r.ok THEN /\ model_root' = r.root
                    /\ pc' = "configure"
                    /\ UNCHANGED streams
       ELSE Fatal(r.line) /\ UNCHANGED model_root
  /\ UNCHANGED <<env, request, fields, config, tokenized, budget, decoding, results>>

\* lines 103-104: og.Config(root), then _apply_provider(config, provider)
Configure ==
  /\ pc = "configure"
  /\ Enter("configure")
  /\ \E raises \in BOOLEAN :
       IF raises THEN GenerationFailed("configure") /\ UNCHANGED config
       ELSE /\ config' = [root |-> model_root,
                          providers |-> ApplyProvider(DefaultProviders, provider)]
            /\ pc' = "load"
            /\ UNCHANGED streams
  /\ UNCHANGED <<env, request, fields, model_root, tokenized, budget, decoding, results>>

\* lines 106-107: og.Model(config), og.Tokenizer(model)
Load ==
  /\ pc = "load"
  /\ Enter("load")
  /\ \E raises \in BOOLEAN :
       IF raises THEN GenerationFailed("load") /\ UNCHANGED capability
       ELSE /\ capability' \in Capabilities
            /\ pc' = "tokenize"
            /\ UNCHANGED streams
  /\ UNCHANGED <<env, request, fields, model_root, config, formatted_prompt, input_ids,
                 prompt_token_count, budget, decoding, results>>

\* lines 108-109: _format_prompt, tokenizer.encode
Tokenize ==
  /\ pc = "tokenize"
  /\ Enter("tokenize")
  /\ \E raises \in BOOLEAN :
       IF raises
         THEN /\ GenerationFailed("tokenize")
              /\ UNCHANGED <<formatted_prompt, input_ids>>
         ELSE /\ formatted_prompt' = FormatPrompt(capability, prompt)
              /\ input_ids' = Encode(FormatPrompt(capability, prompt))
              /\ pc' = "budget"
              /\ UNCHANGED streams
  /\ UNCHANGED <<env, request, fields, model_root, config, capability,
                 prompt_token_count, budget, decoding, results>>

\* temperature=max(0.0, temperature), top_p=min(max(top_p, 0.0), 1.0), lines 118-119
SearchOptions(limit, temp, p) ==
  [max_length |-> limit, temperature |-> Max(0, temp), top_p |-> Min(Max(p, 0), 100)]

\* lines 112-120: the budget and the search options
Budget ==
  /\ pc = "budget"
  /\ Enter("decode_loop")
  /\ \E raises \in BOOLEAN :
       IF raises
         THEN /\ GenerationFailed("decode_loop")
              /\ UNCHANGED <<prompt_token_count, max_length, params>>
         ELSE /\ prompt_token_count' = Len(input_ids)
              /\ max_length' = MaxLength(Len(input_ids), max_new_tokens)
              /\ params' = SearchOptions(MaxLength(Len(input_ids), max_new_tokens),
                                         temperature, top_p)
              /\ pc' = "generator"
              /\ UNCHANGED streams
  /\ UNCHANGED <<env, request, fields, model_root, config, capability, formatted_prompt,
                 input_ids, decoding, results>>

\* lines 122-123: og.Generator(model, params), generator.append_tokens(input_ids)
StartGenerator ==
  /\ pc = "generator"
  /\ \E raises \in BOOLEAN :
       IF raises THEN GenerationFailed("decode_loop") /\ UNCHANGED generator
       ELSE /\ \E k \in StubLengths :
                 generator' = [seq |-> input_ids, emitted |-> 0, k |-> k]
            /\ pc' = "decode"
            /\ UNCHANGED streams
  /\ UNCHANGED <<env, log, request, fields, model_root, config, tokenized, budget,
                 genCalls, results>>

\* lines 124-125: one evaluation of the loop condition, and the body
DecodeStep ==
  /\ pc = "decode"
  /\ IF IsDone(generator, params.max_length)
       THEN /\ pc' = "extract"
            /\ UNCHANGED <<streams, decoding>>
       ELSE /\ genCalls' = genCalls + 1
            /\ \E raises \in BOOLEAN :
                 IF raises THEN GenerationFailed("decode_loop") /\ UNCHANGED generator
                 ELSE /\ generator' = GenerateNextToken(generator)
                      /\ UNCHANGED <<streams, pc>>
  /\ UNCHANGED <<env, log, request, fields, model_root, config, tokenized, budget, results>>

\* lines 127-128: generator.get_sequence(0), the slice
Extract ==
  /\ pc = "extract"
  /\ Enter("extract")
  /\ \E raises \in BOOLEAN :
       IF raises
         THEN /\ GenerationFailed("extract")
              /\ UNCHANGED <<output_ids, generated_ids>>
         ELSE /\ output_ids' = generator.seq
              /\ generated_ids' = SliceFrom(generator.seq, prompt_token_count)
              /\ pc' = "detokenize"
              /\ UNCHANGED streams
  /\ UNCHANGED <<env, request, fields, model_root, config, tokenized, budget, decoding, text>>

\* line 129: tokenizer.decode(generated_ids)
Detokenize ==
  /\ pc = "detokenize"
  /\ Enter("detokenize")
  /\ \E raises \in BOOLEAN :
       IF raises THEN GenerationFailed("detokenize") /\ UNCHANGED text
       ELSE /\ text' = Decode(generated_ids)
            /\ pc' = "respond"
            /\ UNCHANGED streams
  /\ UNCHANGED <<env, request, fields, model_root, config, tokenized, budget, decoding,
                 output_ids, generated_ids>>

\* line 133: json.dump({"text": text}, sys.stdout), and main returns
Respond ==
  /\ pc = "respond"
  /\ Enter("respond")
  /\ stdout' = Append(stdout, [text |-> text])
  /\ exitCode' = 0
  /\ pc' = "exited"
  /\ UNCHANGED <<env, stderr, request, fields, model_root, config, tokenized, budget,
                 decoding, results>>

Next ==
  \/ LoadRequest
  \/ ReadFields
  \/ Validate
  \/ ImportRuntime
  \/ Resolve
  \/ Configure
  \/ Load
  \/ Tokenize
  \/ Budget
  \/ StartGenerator
  \/ DecodeStep
  \/ Extract
  \/ Detokenize
  \/ Respond

Spec == Init /\ [][Next]_vars

\* the process is one thread that runs until it exits
FairSpec == Spec /\ WF_vars(Next)

\* every provider string, on a few requests and file systems
InitBackend ==
  /\ stdin \in BadInputs \cup
       { ObjectInput(mp, JStr(S_hi), mnt, JAbsent, JAbsent, prov) :
           mp \in {JStr(<<>>), JStr(S_m)},
           mnt \in {JStr(S_abc), JInt(0)},
           prov \in AllProviderValues }
  /\ files \in {{}, {Dir(S_m), GenaiFile, WeightsFile}}
  /\ Start

SpecBackend == InitBackend /\ [][Next]_vars

(***************************************************************************)
(* Vocabulary of the properties.                                           *)
(***************************************************************************)
Exited == pc = "exited"
Failed == Exited /\ exitCode # 0
Succeeded == Exited /\ exitCode = 0
Entered(stage) == \E i \in 1..Len(log) : log[i] = stage
\* the stage was entered and did not end the run
Passed(stage) == Entered(stage) /\ ~(Failed /\ log[Len(log)] = stage)
OneLine(kind, details) == stderr = <<Line(kind, details)>>

DiagnosticKinds ==
  { "invalid_request_json", "missing_model_path", "missing_prompt",
    "model_config_not_found", "model_root_not_found",
    "genai_config_not_found_in_model_root", "onnxruntime_genai_import_failed",
    "onnxruntime_generation_failed" }

IsObject == stdin.kind = "object"
\* model_path is absent, empty or whitespace-only in the request
BlankModelPath ==
  \/ stdin.obj.model_path.t = "absent"
  \/ /\ stdin.obj.model_path.t = "str"
     /\ \A i \in 1..Len(stdin.obj.model_path.s) : stdin.obj.model_path.s[i] \in Whitespace
\* prompt is absent or empty in the request
EmptyPrompt == stdin.obj.prompt.t = "absent" \/ stdin.obj.prompt = JStr(<<>>)
\* int() and float() accept the three numeric fields of the request
NumericFieldsConvert ==
  /\ PyInt(RequestGet(stdin.obj, "max_new_tokens", JInt(DefaultMaxNewTokens))).ok
  /\ PyFloat(RequestGet(stdin.obj, "temperature", JFloat(DefaultTemperature))).ok
  /\ PyFloat(RequestGet(stdin.obj, "top_p", JFloat(DefaultTopP))).ok
\* the run ended in an exception of int() or float() that nothing caught
EndedInConversion ==
  /\ Failed /\ stdout = <<>> /\ log = <<"decode_request">>
  /\ stderr # <<>> /\ stderr[Len(stderr)].kind \in {"ValueError", "TypeError"}

(***************************************************************************)
(* C1: every failing run writes exactly one line to the error stream, of   *)
(* the form <error_kind> or <error_kind>: <details> with a named kind, and *)
(* exits with status 1.  The code breaks this when int() or float()        *)
(* rejects a numeric field: the exception is caught nowhere.               *)
(***************************************************************************)
C1_EveryFailureOneDiagnostic ==
  Failed => /\ Len(stderr) = 1
            /\ stderr[1].kind \in DiagnosticKinds
            /\ exitCode = 1

(***************************************************************************)
(* C2: standard output is written at most once, only after every stage has *)
(* succeeded; a run that writes it emits exactly {"text": text} and exits  *)
(* with status 0; a run that fails has written nothing to it.              *)
(***************************************************************************)
C2_StdoutOnlyOnSuccess ==
  /\ Len(stdout) <= 1
  /\ stdout # <<>> => /\ Succeeded
                      /\ log = Stages
                      /\ stderr = <<>>
                      /\ stdout = <<[text |-> text]>>
  /\ Failed => stdout = <<>>
  /\ Succeeded => stdout # <<>>

C2_Witness == stdout # <<>> /\ Len(text) = 2 /\ Succeeded

(***************************************************************************)
(* C3, as claimed: every request object whose model_path is absent, empty  *)
(* or whitespace-only fails with missing_model_path and writes nothing to  *)
(* standard output, whatever its other fields.                             *)
(***************************************************************************)
C3_Original ==
  (Exited /\ IsObject /\ BlankModelPath)
    => (OneLine("missing_model_path", <<>>) /\ stdout = <<>>)

(***************************************************************************)
(* C3, amended: such a request fails with missing_model_path when its      *)
(* numeric fields convert; when one does not, the run ends at the          *)
(* conversion, before the model_path check.  Nothing is written to         *)
(* standard output in either case.                                         *)
(***************************************************************************)
C3_MissingModelPath ==
  (Exited /\ IsObject /\ BlankModelPath)
    => /\ stdout = <<>>
       /\ Failed
       /\ IF NumericFieldsConvert
            THEN OneLine("missing_model_path", <<>>) /\ exitCode = 1
            ELSE EndedInConversion

C3_Witness ==
  /\ Exited /\ IsObject
  /\ stdin.obj.model_path = JStr(<<" ", "\t">>)
  /\ stdin.obj.prompt = JStr(S_hi)
  /\ stdin.obj.provider # JAbsent
  /\ OneLine("missing_model_path", <<>>)

(***************************************************************************)
(* C4, as claimed: model_path is checked before prompt and both before the *)
(* runtime is touched: non-empty model_path with empty prompt fails with   *)
(* missing_prompt, both empty fails with missing_model_path, and a run     *)
(* that fails either check never imports, configures or loads the runtime  *)
(* nor probes the file system.                                             *)
(***************************************************************************)
ChecksBeforeRuntime ==
  /\ Entered("import") => (model_path # <<>> /\ prompt # <<>>)
  /\ (stderr # <<>> /\ stderr[1].kind \in {"missing_model_path", "missing_prompt"})
       => (Failed /\ log = <<"decode_request", "validate">> /\ config = NoConfig)

C4_Original ==
  /\ ChecksBeforeRuntime
  /\ (Exited /\ IsObject /\ EmptyPrompt)
       => IF BlankModelPath THEN OneLine("missing_model_path", <<>>)
          ELSE OneLine("missing_prompt", <<>>)

(***************************************************************************)
(* C4, amended: the same for requests whose numeric fields convert; the    *)
(* conversions run before both checks, and a request with a numeric field  *)
(* that does not convert ends there, the runtime and the file system       *)
(* untouched.                                                              *)
(***************************************************************************)
C4_ValidationOrder ==
  /\ ChecksBeforeRuntime
  /\ (Exited /\ IsObject /\ EmptyPrompt)
       => IF ~NumericFieldsConvert THEN EndedInConversion
          ELSE IF BlankModelPath THEN OneLine("missing_model_path", <<>>)
          ELSE OneLine("missing_prompt", <<>>)

C4_Witness ==
  /\ Exited /\ IsObject /\ EmptyPrompt /\ ~BlankModelPath
  /\ files # {}
  /\ OneLine("missing_prompt", <<>>)
  /\ log = <<"decode_request", "validate">>

(***************************************************************************)
(* C5: when model_path is not an existing file, the directory decides:     *)
(* genai_config.json present, resolution succeeds with that directory;     *)
(* absent with config.json present, genai_config_not_found_in_model_root:  *)
(* <dir>; neither, model_root_not_found: <dir>, exit code 1.  A resolution *)
(* failure is the only line written: never onnxruntime_generation_failed.  *)
(***************************************************************************)
HasGenai(dir) == \E e \in files : e.path = Child(dir, GenaiConfigName)
HasLegacy(dir) == \E e \in files : e.path = Child(dir, LegacyConfigName)
\* the outcome of the lookup in dir, as the run shows it
LookupOutcome(dir) ==
  IF HasGenai(dir)
    THEN Passed("resolve") /\ model_root = PathStr(dir)
  ELSE /\ Failed /\ exitCode = 1 /\ stdout = <<>>
       /\ log[Len(log)] = "resolve"
       /\ IF HasLegacy(dir)
            THEN OneLine("genai_config_not_found_in_model_root", PathStr(dir))
            ELSE OneLine("model_root_not_found", PathStr(dir))

C5_DirectoryResolution ==
  (Entered("resolve") /\ ~IsFile(files, ToPath(model_path)))
    => LookupOutcome(ToPath(model_path))

C5_Witness ==
  /\ model_path = S_m
  /\ OneLine("genai_config_not_found_in_model_root", S_m)
  /\ exitCode = 1

(***************************************************************************)
(* C6, as claimed: when model_path names an existing file, that file path  *)
(* itself is the resolved location and resolution succeeds without any     *)
(* other lookup.                                                           *)
(***************************************************************************)
C6_Original ==
  (Entered("resolve") /\ IsFile(files, ToPath(model_path)))
    => (Passed("resolve") /\ model_root = model_path)

(***************************************************************************)
(* C6, amended: when model_path names an existing file, the file's parent  *)
(* directory takes its place and the directory lookup of genai_config.json *)
(* and config.json is applied to that parent: the resolved location is the *)
(* parent, or the run fails with the diagnostic naming the parent.         *)
(***************************************************************************)
C6_FileResolvesToParent ==
  (Entered("resolve") /\ IsFile(files, ToPath(model_path)))
    => LookupOutcome(Parent(ToPath(model_path)))

C6_Witness ==
  /\ model_path = S_m \o <<"/", "genai_config.json">>
  /\ IsFile(files, ToPath(model_path))
  /\ Passed("resolve")
  /\ model_root = S_m

(***************************************************************************)
(* C7, as claimed: _apply_provider acts on the trimmed, lower-cased        *)
(* provider: empty or absent leaves the backend list unchanged; cpu, cuda, *)
(* directml, dml, coreml clear it and append the mapped backend, " CUDA "  *)
(* as "cuda"; any other value clears it and appends the normalized value.  *)
(***************************************************************************)
Trimmed == IF provider.none THEN <<>> ELSE Lower(Strip(provider.s))
ExpectedBackend(name) ==
  CASE name = <<"c","p","u">> -> <<"CPUExecutionProvider">>
    [] name = <<"c","u","d","a">> -> <<"CUDAExecutionProvider">>
    [] name \in {<<"d","i","r","e","c","t","m","l">>, <<"d","m","l">>} -> <<"DmlExecutionProvider">>
    [] name = <<"c","o","r","e","m","l">> -> <<"CoreMLExecutionProvider">>
    [] OTHER -> <<>>
\* the backend list for a provider the mapping knows, or for none
MappedOrUntouched ==
  /\ Trimmed = <<>> => config.providers = DefaultProviders
  /\ ExpectedBackend(Trimmed) # <<>> => config.providers = <<ExpectedBackend(Trimmed)>>

C7_Original ==
  Passed("configure")
    => /\ MappedOrUntouched
       /\ (Trimmed # <<>> /\ ExpectedBackend(Trimmed) = <<>>)
            => config.providers = <<Trimmed>>

(***************************************************************************)
(* C7, amended: as claimed, except that a value the mapping does not know  *)
(* is appended as the provider string was given, neither trimmed nor       *)
(* lower-cased.                                                            *)
(***************************************************************************)
C7_ProviderSelection ==
  Passed("configure")
    => /\ MappedOrUntouched
       /\ (Trimmed # <<>> /\ ExpectedBackend(Trimmed) = <<>>)
            => config.providers = <<provider.s>>

C7_Witness ==
  /\ Passed("configure")
  /\ provider = SomeStr(<<" ", "M", "y", "E", "P", " ">>)
  /\ config.providers = << <<" ", "M", "y", "E", "P", " ">> >>

(***************************************************************************)
(* C8: max_length is set once, before the decode loop, to                  *)
(* prompt_token_count + max(32, max_new_tokens), and does not change in    *)
(* the loop; generate_next_token is called at most                         *)
(* max_length - prompt_token_count times, after which the loop ends.       *)
(***************************************************************************)
BudgetSet == pc \in {"generator", "decode", "extract", "detokenize", "respond"} \/ Succeeded
BudgetBounds ==
  /\ BudgetSet =>
       /\ max_length = prompt_token_count
                         + (IF max_new_tokens > 32 THEN max_new_tokens ELSE 32)
       /\ params.max_length = max_length
  /\ genCalls <= max_length - prompt_token_count
  /\ (pc = "decode" /\ genCalls = max_length - prompt_token_count)
       => IsDone(generator, max_length)

C8_BudgetFixedBeforeLoop ==
  /\ []BudgetBounds
  /\ [][/\ max_length' # max_length => (pc = "budget" /\ genCalls = 0)
        /\ genCalls' # genCalls => (max_length' = max_length /\ genCalls' = genCalls + 1)]_vars
  /\ <>Exited

C8_Witness ==
  /\ pc = "extract"
  /\ max_new_tokens <= 0
  /\ genCalls = MinNewTokens
  /\ genCalls = max_length - prompt_token_count
  /\ generator.k > genCalls

(***************************************************************************)
(* C9: with a stub runtime that emits k tokens after the prompt and then   *)
(* signals completion, the tokens detokenized are exactly the last k of    *)
(* the output sequence, so the text holds no prompt token: a 3-token       *)
(* prompt followed by [A, B] gives {"text": "AB"} and exit code 0.         *)
(***************************************************************************)
C9_OnlyGeneratedTokens ==
  (pc = "respond" \/ Succeeded)
    => /\ prompt_token_count >= 1
       /\ Len(output_ids) = prompt_token_count + genCalls
       /\ SubSeq(output_ids, 1, prompt_token_count) = input_ids
       /\ generated_ids = [j \in 1..genCalls |-> output_ids[prompt_token_count + j]]
       /\ text = [j \in 1..genCalls |-> IF j % 2 = 1 THEN "A" ELSE "B"]
       /\ Succeeded => stdout = <<[text |-> text]>>

C9_Witness ==
  /\ Succeeded
  /\ prompt_token_count = 3
  /\ genCalls = 2
  /\ stdout = <<[text |-> <<"A", "B">>]>>

(***************************************************************************)
(* C10: an exception of the runtime at Load, Tokenize, Decode-Loop,        *)
(* Extract or Detokenize ends the run at once with the one diagnostic      *)
(* onnxruntime_generation_failed: <message>; no later stage runs and none  *)
(* is entered twice.  Only chat-template formatting may fail: a tokenizer  *)
(* without the capability, or whose call raises, gives the raw prompt.     *)
(***************************************************************************)
C10_RuntimeFailureAborts ==
  /\ log = SubSeq(Stages, 1, Len(log))
  /\ stderr # <<>> => Exited
  /\ (stderr # <<>> /\ stderr[1].kind = "onnxruntime_generation_failed")
       => /\ OneLine("onnxruntime_generation_failed", <<"stub raised in", log[Len(log)]>>)
          /\ log[Len(log)] \in {"configure", "load", "tokenize", "decode_loop",
                                 "extract", "detokenize"}
          /\ exitCode = 1
          /\ stdout = <<>>
  /\ Passed("tokenize")
       => /\ formatted_prompt =
               (IF capability = "ok"
                  THEN <<"<|user|>">> \o prompt \o <<"<|assistant|>">>
                  ELSE prompt)
          /\ input_ids = Encode(formatted_prompt)

C10_Witness ==
  /\ capability = "raises"
  /\ formatted_prompt = S_hi
  /\ genCalls = 2
  /\ OneLine("onnxruntime_generation_failed", <<"stub raised in", "decode_loop">>)

====
